---- MODULE Spec2Model ----
(***************************************************************************)
(* Model of modules/@angular/compiler-cli/src/ng_host.ts: the NgHost        *)
(* (reverse path resolution, metadata lookup) and the disk backed           *)
(* NodeNgHostContext.                                                        *)
(*                                                                           *)
(* Strings are sequences of tokens.  A token is "/", "." or a name made of  *)
(* letters and digits ("proj", "node_modules", "ts").  The names used below *)
(* are chosen so that the decoding of a string into tokens is unique and no *)
(* name is a prefix of the name that ends basePath; searching a token       *)
(* sequence then finds exactly the matches the character search finds.      *)
(* All paths handed to the host are absolute (the code's "We use absolute   *)
(* paths on disk as canonical").                                             *)
(***************************************************************************)
EXTENDS Integers, Sequences, FiniteSets, TLC

VARIABLES basePath, genDir, isGenDirChildOfRootDir, program, disk,
          assumedExists, resolverCache, call

vars == <<basePath, genDir, isGenDirChildOfRootDir, program, disk,
          assumedExists, resolverCache, call>>

-----------------------------------------------------------------------------
(* String primitives of JavaScript, on token sequences.                     *)

Empty == <<>>

startsWith(s, pre) ==
  Len(s) >= Len(pre) /\ SubSeq(s, 1, Len(pre)) = pre

endsWith(s, suf) ==
  Len(s) >= Len(suf) /\ SubSeq(s, Len(s) - Len(suf) + 1, Len(s)) = suf

dropLast(s, n) == SubSeq(s, 1, Len(s) - n)

MinOf(S) == CHOOSE x \in S : \A y \in S : x <= y

MaxOf(S) == CHOOSE x \in S : \A y \in S : x >= y

(* the 0-based offsets at which pat occurs in s *)
occurrences(s, pat) ==
  {i \in 0..(Len(s) - Len(pat)) : SubSeq(s, i + 1, i + Len(pat)) = pat}

(* String.prototype.indexOf: the first occurrence, -1 when there is none *)
indexOf(s, pat) ==
  IF occurrences(s, pat) = {} THEN -1 ELSE MinOf(occurrences(s, pat))

(* String.prototype.substring(start) *)
substring(s, start) == SubSeq(s, start + 1, Len(s))

(* String.prototype.replace(pattern: string, replacement): first occurrence *)
replace(s, pat, rep) ==
  LET i == indexOf(s, pat)
  IN  IF i = -1 THEN s
      ELSE SubSeq(s, 1, i) \o rep \o SubSeq(s, i + Len(pat) + 1, Len(s))

(* .replace(/\\/g, '/') *)
replaceBackslashes(s) ==
  [i \in 1..Len(s) |-> IF s[i] = "\\" THEN "/" ELSE s[i]]

-----------------------------------------------------------------------------
(* The module's constants.                                                   *)

NODE_MODULES == <<"/", "node_modules", "/">>

(* EXT = /(\.ts|\.d\.ts|\.js|\.jsx|\.tsx)$/ : the leftmost match is taken,   *)
(* so ".d.ts" is matched whole.  The number of tokens matched, 0 for none.   *)
EXT(s) ==
  IF endsWith(s, <<".", "d", ".", "ts">>) THEN 4
  ELSE IF \E e \in {"ts", "js", "jsx", "tsx"} : endsWith(s, <<".", e>>) THEN 2
  ELSE 0

(* DTS = /\.d\.ts$/ *)
DTS(s) == endsWith(s, <<".", "d", ".", "ts">>)

(* IS_GENERATED = /\.(ngfactory|css(\.shim)?)$/ *)
IS_GENERATED(s) ==
  \/ endsWith(s, <<".", "ngfactory">>)
  \/ endsWith(s, <<".", "css">>)
  \/ endsWith(s, <<".", "css", ".", "shim">>)

-----------------------------------------------------------------------------
(* Node's posix path module, as far as ng_host.ts uses it.                   *)

RECURSIVE segments(_, _, _)
(* the pieces of p between "/" tokens, from position i on *)
segments(p, i, cur) ==
  IF i > Len(p) THEN <<cur>>
  ELSE IF p[i] = "/" THEN <<cur>> \o segments(p, i + 1, Empty)
  ELSE segments(p, i + 1, Append(cur, p[i]))

DotDot == <<".", ".">>

RECURSIVE normalizeSegments(_, _, _, _)
(* normalizeString: drops empty and "." pieces and resolves ".." pieces *)
normalizeSegments(ss, i, acc, allowAboveRoot) ==
  IF i > Len(ss) THEN acc
  ELSE IF ss[i] = Empty \/ ss[i] = <<".">>
    THEN normalizeSegments(ss, i + 1, acc, allowAboveRoot)
  ELSE IF ss[i] = DotDot
    THEN IF Len(acc) > 0 /\ acc[Len(acc)] # DotDot
           THEN normalizeSegments(ss, i + 1, dropLast(acc, 1), allowAboveRoot)
         ELSE IF allowAboveRoot
           THEN normalizeSegments(ss, i + 1, Append(acc, DotDot), allowAboveRoot)
         ELSE normalizeSegments(ss, i + 1, acc, allowAboveRoot)
  ELSE normalizeSegments(ss, i + 1, Append(acc, ss[i]), allowAboveRoot)

RECURSIVE joinSegments(_, _)
joinSegments(ss, i) ==
  IF i > Len(ss) THEN Empty
  ELSE IF i = Len(ss) THEN ss[i]
  ELSE ss[i] \o <<"/">> \o joinSegments(ss, i + 1)

(* path.normalize *)
normalize(p) ==
  IF Len(p) = 0 THEN <<".">>
  ELSE
    LET isAbsolute == p[1] = "/"
        trailingSeparator == p[Len(p)] = "/"
        n0 == joinSegments(
                normalizeSegments(segments(p, 1, Empty), 1, <<>>, ~isAbsolute), 1)
        n1 == IF Len(n0) = 0 /\ ~isAbsolute THEN <<".">> ELSE n0
        n2 == IF Len(n1) > 0 /\ trailingSeparator THEN n1 \o <<"/">> ELSE n1
    IN  IF isAbsolute THEN <<"/">> \o n2 ELSE n2

(* path.join(a, b) *)
join(a, b) ==
  LET joined == IF Len(a) = 0 THEN b
                ELSE IF Len(b) = 0 THEN a
                ELSE a \o <<"/">> \o b
  IN  IF Len(joined) = 0 THEN <<".">> ELSE normalize(joined)

(* path.dirname *)
dirname(p) ==
  IF Len(p) = 0 THEN <<".">>
  ELSE
    LET hasRoot == p[1] = "/"
        (* the slashes at offset >= 1 that are followed, somewhere, by a *)
        (* token that is not a slash                                     *)
        cuts == {i \in 1..(Len(p) - 1) :
                   /\ p[i + 1] = "/"
                   /\ \E j \in (i + 2)..Len(p) : p[j] # "/"}
        end == IF cuts = {} THEN -1 ELSE MaxOf(cuts)
    IN  IF end = -1 THEN (IF hasRoot THEN <<"/">> ELSE <<".">>)
        ELSE IF hasRoot /\ end = 1 THEN <<"/", "/">>
        ELSE SubSeq(p, 1, end)

(* path.resolve of one absolute path: normalized, no trailing separator *)
resolveSegments(p) ==
  normalizeSegments(segments(p, 1, Empty), 1, <<>>, FALSE)

RECURSIVE commonLength(_, _, _)
commonLength(a, b, i) ==
  IF i > Len(a) \/ i > Len(b) \/ a[i] # b[i] THEN i - 1
  ELSE commonLength(a, b, i + 1)

(* path.relative(from, to) for absolute paths *)
relative(from, to) ==
  LET f == resolveSegments(from)
      t == resolveSegments(to)
      c == commonLength(f, t, 1)
      ups == [i \in 1..(Len(f) - c) |-> DotDot]
  IN  IF from = to \/ f = t THEN Empty
      ELSE joinSegments(ups \o SubSeq(t, c + 1, Len(t)), 1)

-----------------------------------------------------------------------------
(* The files of the modelled project.                                        *)

abs(ss) == <<"/">> \o joinSegments(ss, 1)

Proj == <<"proj">>
Src == <<"src">>
Gen == <<"gen">>
App == <<"app">>
NM == <<"node_modules">>

(* sources of the application *)
AppComponent == abs(<<Proj, Src, App, <<"app", ".", "component">>>>)
AppComponentTs == AppComponent \o <<".", "ts">>
ExtraTs == abs(<<Proj, Src, App, <<"extra", ".", "ts">>>>)
HiddenTs == abs(<<Proj, Src, <<".", "hidden">>, <<"foo", ".", "ts">>>>)

(* generated artifacts *)
AppFactoryTs == AppComponent \o <<".", "ngfactory", ".", "ts">>
AppCssShimTs == AppComponent \o <<".", "css", ".", "shim", ".", "ts">>
StyleCssTs == abs(<<Proj, Src, App, <<"style", ".", "css", ".", "ts">>>>)
MainFactoryTs == abs(<<Proj, Src, <<"main", ".", "ngfactory", ".", "ts">>>>)
GenAppFactory == abs(<<Proj, Src, Gen, App, <<"app", ".", "component", ".", "ngfactory">>>>)
SiblingGenFactoryTs == abs(<<Proj, Gen, App, <<"main", ".", "ngfactory", ".", "ts">>>>)
OtherFactoryTs == abs(<<<<"other">>, <<"widget", ".", "ngfactory", ".", "ts">>>>)
Src2FactoryTs == abs(<<Proj, <<"src", "2">>, <<"page", ".", "ngfactory", ".", "ts">>>>)

(* dependencies *)
RxjsObservable == abs(<<Proj, NM, <<"rxjs">>, <<"Observable">>>>)
RxjsObservableDts == RxjsObservable \o <<".", "d", ".", "ts">>
NestedIndexDts == abs(<<Proj, NM, <<"a">>, NM, <<"b">>, <<"index", ".", "d", ".", "ts">>>>)
NestedFactoryTs == abs(<<Proj, NM, <<"a">>, NM, <<"b">>, <<"index", ".", "ngfactory", ".", "ts">>>>)
LibButtonFactoryTs == abs(<<Proj, NM, <<"lib">>, <<"button", ".", "ngfactory", ".", "ts">>>>)
LibIndexFactoryTs == abs(<<Proj, NM, <<"lib">>, <<"index", ".", "ngfactory", ".", "ts">>>>)
LibIndexDts == abs(<<Proj, NM, <<"lib">>, <<"index", ".", "d", ".", "ts">>>>)
LibIndexMetadataJson == abs(<<Proj, NM, <<"lib">>, <<"index", ".", "metadata", ".", "json">>>>)
BinToolTs == abs(<<Proj, NM, <<".", "bin">>, <<"tool", ".", "ts">>>>)
BareMarkerTs == abs(<<Proj, NM, <<".", "ts">>>>)

(* the imported files of the reverse-resolution runs *)
ImportedFiles ==
  {AppComponent, AppComponentTs, HiddenTs,
   AppFactoryTs, AppCssShimTs, StyleCssTs, GenAppFactory, SiblingGenFactoryTs,
   OtherFactoryTs, Src2FactoryTs,
   RxjsObservable, RxjsObservableDts, NestedIndexDts, NestedFactoryTs,
   LibButtonFactoryTs, BinToolTs, BareMarkerTs}

(* the files that contain the imports *)
ContainingFiles ==
  {GenAppFactory, AppFactoryTs, MainFactoryTs, SiblingGenFactoryTs,
   LibIndexFactoryTs}

(* the imported files that are not on disk when a reverse-resolution run starts *)
NotYetEmitted == {AppFactoryTs, NestedFactoryTs, OtherFactoryTs}

(* the files of the metadata runs *)
DiskPaths == {AppComponentTs, ExtraTs, LibIndexDts, LibIndexMetadataJson, AppFactoryTs}

HostImports == {ExtraTs, LibIndexDts, AppFactoryTs}

(* the options.basePath / options.genDir pairs of the runs, as configured *)
Options ==
  { [basePath |-> abs(<<Proj, Src, Empty>>), genDir |-> abs(<<Proj, Src, Gen>>)],
    [basePath |-> abs(<<Proj, Src>>), genDir |-> abs(<<Proj, Gen, Empty>>)],
    [basePath |-> abs(<<Proj, Src>>), genDir |-> abs(<<Proj, Src, <<".">>>>)] }

-----------------------------------------------------------------------------
(* File contents and values.                                                 *)

Absent == "Absent"

SourceTexts == {"Src1", "Src2"}

JsonTexts == {"EmptyArr", "Arr1", "Obj1", "Obj2", "Corrupt"}

contentsOf(p) ==
  IF p = LibIndexMetadataJson THEN JsonTexts
  ELSE IF p = LibIndexDts THEN {"Decl"}
  ELSE IF p = AppComponentTs THEN {"Src1"}
  ELSE SourceTexts

Undefined == [type |-> "undefined"]

Return(v) == [kind |-> "return", value |-> v]

Throw(e) == [kind |-> "throw", error |-> e]

(* JSON.parse *)
parseJSON(text) ==
  IF text = "EmptyArr" THEN Return([type |-> "array", items |-> <<>>])
  ELSE IF text = "Arr1" THEN Return([type |-> "array", items |-> <<"m1">>])
  ELSE IF text \in {"Obj1", "Obj2"} THEN Return([type |-> "object", id |-> text])
  ELSE Throw("SyntaxError")

(* metadataCollector.getMetadata(sourceFile): the collaborator's result is a *)
(* function of the source text                                               *)
getMetadata(text) == [type |-> "metadata", of |-> text]

-----------------------------------------------------------------------------
(* NodeNgHostContext, backed by the compiler host's view of the disk.        *)

(* this.host.fileExists / this.compilerHost.fileExists *)
hostFileExists(fileName) ==
  fileName \in DOMAIN disk /\ disk[fileName] # Absent

fileExists_diskOnly(fileName) == hostFileExists(fileName)

(* NodeNgHostContext.fileExists *)
fileExists(fileName) ==
  fileName \in assumedExists \/ hostFileExists(fileName)

assumeFileExists_forgets(fileName) == assumedExists

(* NodeNgHostContext.assumeFileExists: the new assumed-existing set *)
assumeFileExists(fileName) == assumedExists \cup {fileName}

(* NodeNgHostContext.readFile: fs.readFileSync fails on a missing file *)
readFile(fileName) ==
  IF hostFileExists(fileName) THEN Return(disk[fileName]) ELSE Throw("ENOENT")

(* NodeNgHostContext.readResource *)
readResource(s) ==
  IF ~hostFileExists(s)
    THEN Throw("Compilation failed. Resource file not found")
    ELSE Return(disk[s])

-----------------------------------------------------------------------------
(* NgHost: construction.                                                     *)

(* path.normalize(path.join(dir, '.')).replace(/\\/g, '/') *)
normalizeRoot(dir) == replaceBackslashes(normalize(join(dir, <<".">>)))

(* genPath === '' || !genPath.startsWith('..') *)
isChildOf(base, gen) ==
  LET genPath == relative(base, gen)
  IN  genPath = Empty \/ ~startsWith(genPath, DotDot)

-----------------------------------------------------------------------------
(* NgHost: reverse resolution.                                               *)

rewriteGenDirPath_keepsSource(filepath) ==
  LET nodeModulesIndex == indexOf(filepath, NODE_MODULES)
  IN  IF nodeModulesIndex # -1
        THEN join(genDir, substring(filepath, nodeModulesIndex))
        ELSE filepath

rewriteGenDirPath_onlyOutsideGenDir(filepath) ==
  LET nodeModulesIndex == indexOf(filepath, NODE_MODULES)
  IN  IF nodeModulesIndex # -1
        THEN join(genDir, substring(filepath, nodeModulesIndex))
        ELSE IF startsWith(filepath, genDir \o <<"/">>) THEN filepath
        ELSE replace(filepath, basePath, genDir)

(* NgHost.rewriteGenDirPath *)
rewriteGenDirPath(filepath) ==
  LET nodeModulesIndex == indexOf(filepath, NODE_MODULES)
  IN  IF nodeModulesIndex # -1
        THEN join(genDir, substring(filepath, nodeModulesIndex))
        ELSE replace(filepath, basePath, genDir)

(* NgHost.dotRelative *)
dotRelative(from, to) ==
  LET rPath == replaceBackslashes(relative(from, to))
  IN  IF startsWith(rPath, <<".">>) THEN rPath ELSE <<".", "/">> \o rPath

(* importedFile.replace(EXT, '') *)
dropExtension(importedFile) == dropLast(importedFile, EXT(importedFile))

importModuleOf_lastMarker(importedFile) ==
  LET found == occurrences(importedFile, NODE_MODULES)
      nodeModulesIndex == IF found = {} THEN -1 ELSE MaxOf(found)
  IN  IF nodeModulesIndex = -1
        THEN [isNull |-> TRUE, id |-> Empty]
        ELSE [isNull |-> FALSE,
              id |-> substring(importedFile, nodeModulesIndex + Len(NODE_MODULES))]

(* importModule: null, or the text after the marker found by indexOf *)
importModuleOf(importedFile) ==
  LET nodeModulesIndex == indexOf(importedFile, NODE_MODULES)
  IN  IF nodeModulesIndex = -1
        THEN [isNull |-> TRUE, id |-> Empty]
        ELSE [isNull |-> FALSE,
              id |-> substring(importedFile, nodeModulesIndex + Len(NODE_MODULES))]

(* if (importModule): null and the empty string are falsy *)
truthy(importModule) == ~importModule.isNull /\ importModule.id # Empty

resolveFileToImport_relativeDependencies(importedFile0, containingFile0) ==
  LET containingFile == rewriteGenDirPath(containingFile0)
      containingDir == dirname(containingFile)
      importedFile == dropExtension(importedFile0)
      importModule == importModuleOf(importedFile)
  IN  IF IS_GENERATED(importedFile)
        THEN IF truthy(importModule)
               THEN dotRelative(containingDir, genDir \o NODE_MODULES \o importModule.id)
               ELSE dotRelative(containingDir, rewriteGenDirPath(importedFile))
        ELSE IF ~isGenDirChildOfRootDir
               THEN dotRelative(containingDir, replace(importedFile, basePath, genDir))
               ELSE dotRelative(containingDir, importedFile)

(* NgHost.resolveFileToImport: the specifier returned *)
resolveFileToImport(importedFile0, containingFile0) ==
  LET containingFile == rewriteGenDirPath(containingFile0)
      containingDir == dirname(containingFile)
      importedFile == dropExtension(importedFile0)
      importModule == importModuleOf(importedFile)
      isGeneratedFile == IS_GENERATED(importedFile)
  IN  IF isGeneratedFile
        THEN IF truthy(importModule)
               THEN dotRelative(containingDir, genDir \o NODE_MODULES \o importModule.id)
               ELSE dotRelative(containingDir, rewriteGenDirPath(importedFile))
        ELSE IF truthy(importModule)
               THEN importModule.id
               ELSE IF ~isGenDirChildOfRootDir
                      THEN dotRelative(containingDir,
                                       replace(importedFile, basePath, genDir))
                      ELSE dotRelative(containingDir, importedFile)

-----------------------------------------------------------------------------
(* NgHost: metadata.                                                         *)

(* this.resolverCache.get(filePath): undefined for a missing key *)
cacheGet(filePath) ==
  IF filePath \in DOMAIN resolverCache THEN resolverCache[filePath] ELSE Undefined

(* NgHost.readMetadata: the outcome and the files read *)
readMetadata(filePath) ==
  IF cacheGet(filePath) # Undefined
    THEN [result |-> Return(cacheGet(filePath)), reads |-> {}]
    ELSE LET text == readFile(filePath)
         IN  [result |-> IF text.kind = "throw" THEN text ELSE parseJSON(text.value),
              reads |-> {filePath}]

emptyArrayIsAbsent_kept(metadata) == metadata

(* (Array.isArray(metadata) && metadata.length == 0) ? undefined : metadata *)
emptyArrayIsAbsent(metadata) ==
  IF metadata.type = "array" /\ Len(metadata.items) = 0 THEN Undefined ELSE metadata

(* filePath.replace(DTS, '.metadata.json') *)
metadataPathOf(filePath) ==
  IF DTS(filePath) THEN dropLast(filePath, 4) \o <<".", "metadata", ".", "json">>
  ELSE filePath

(* getMetadataFor past its first existence check *)
metadataOfExisting(filePath) ==
  IF DTS(filePath)
    THEN LET metadataPath == metadataPathOf(filePath)
         IN  IF fileExists(metadataPath)
               THEN LET m == readMetadata(metadataPath)
                    IN  [result |-> IF m.result.kind = "throw" THEN m.result
                                    ELSE Return(emptyArrayIsAbsent(m.result.value)),
                         reads |-> m.reads]
               ELSE [result |-> Return(Undefined), reads |-> {}]
    ELSE IF filePath \notin DOMAIN program
      THEN IF fileExists(filePath)
             THEN LET sourceText == readFile(filePath)
                  IN  [result |-> IF sourceText.kind = "throw" THEN sourceText
                                  ELSE Return(getMetadata(sourceText.value)),
                       reads |-> {filePath}]
             ELSE [result |-> Throw("Source file not present in program."),
                   reads |-> {}]
      ELSE [result |-> Return(getMetadata(program[filePath])), reads |-> {}]

getMetadataFor_noExistenceCheck(filePath) == metadataOfExisting(filePath)

(* NgHost.getMetadataFor: the outcome and the files read *)
getMetadataFor(filePath) ==
  IF ~fileExists(filePath)
    THEN [result |-> Return(Undefined), reads |-> {}]
    ELSE metadataOfExisting(filePath)

-----------------------------------------------------------------------------
(* The operations.                                                           *)

NoCall == [op |-> "none"]

(* new NgHost(program, compilerHost, options), new NodeNgHostContext(host) *)
Construct(o) ==
  /\ basePath = normalizeRoot(o.basePath)
  /\ genDir = normalizeRoot(o.genDir)
  /\ isGenDirChildOfRootDir =
       isChildOf(normalizeRoot(o.basePath), normalizeRoot(o.genDir))
  /\ program = [p \in {AppComponentTs} |-> "Src1"]
  /\ assumedExists = {}
  /\ resolverCache = <<>>
  /\ call = NoCall

(* the disks a metadata run can start from *)
InitialDisks ==
  {d \in [DiskPaths -> SourceTexts \cup JsonTexts \cup {"Decl", Absent}] :
     \A p \in DiskPaths : d[p] \in contentsOf(p) \cup {Absent}}

Init ==
  /\ \E o \in Options : Construct(o)
  /\ disk \in InitialDisks

(* a reverse-resolution run: the sources exist, some artifacts do not yet *)
ResolveInit ==
  /\ \E o \in Options : Construct(o)
  /\ disk = [p \in ImportedFiles \cup ContainingFiles |->
               IF p \in NotYetEmitted THEN Absent ELSE "Src1"]

ResolveFileToImport(importedFile, containingFile) ==
  /\ assumedExists' = IF ~hostFileExists(importedFile)
                        THEN assumeFileExists(importedFile)
                        ELSE assumedExists
  /\ call' = [op |-> "resolveFileToImport",
              importedFile |-> importedFile,
              containingFile |-> containingFile,
              result |-> resolveFileToImport(importedFile, containingFile)]
  /\ UNCHANGED <<basePath, genDir, isGenDirChildOfRootDir, program, disk,
                 resolverCache>>

GetMetadataFor(filePath) ==
  /\ call' = [op |-> "getMetadataFor",
              filePath |-> filePath,
              result |-> getMetadataFor(filePath).result,
              reads |-> getMetadataFor(filePath).reads]
  /\ UNCHANGED <<basePath, genDir, isGenDirChildOfRootDir, program, disk,
                 assumedExists, resolverCache>>

LoadResource(filePath) ==
  /\ call' = [op |-> "loadResource",
              filePath |-> filePath,
              result |-> readResource(filePath)]
  /\ UNCHANGED <<basePath, genDir, isGenDirChildOfRootDir, program, disk,
                 assumedExists, resolverCache>>

(* the compilation driver writes a file between two calls of the host *)
EmitFile(filePath, text) ==
  /\ filePath \in DOMAIN disk
  /\ disk[filePath] # text
  /\ disk' = [disk EXCEPT ![filePath] = text]
  /\ call' = [op |-> "emitFile", filePath |-> filePath]
  /\ UNCHANGED <<basePath, genDir, isGenDirChildOfRootDir, program,
                 assumedExists, resolverCache>>

Next ==
  \/ \E importedFile \in HostImports :
       ResolveFileToImport(importedFile, AppFactoryTs)
  \/ \E filePath \in DiskPaths : GetMetadataFor(filePath)
  \/ \E filePath \in DiskPaths : LoadResource(filePath)
  \/ \E filePath \in DiskPaths : \E text \in contentsOf(filePath) :
       EmitFile(filePath, text)

Spec == Init /\ [][Next]_vars

ResolveNext ==
  \E importedFile \in ImportedFiles : \E containingFile \in ContainingFiles :
    ResolveFileToImport(importedFile, containingFile)

ResolveSpec == ResolveInit /\ [][ResolveNext]_vars

-----------------------------------------------------------------------------
(* Vocabulary of the properties.                                             *)

isResolve == call.op = "resolveFileToImport"

isGetMetadata == call.op = "getMetadataFor"

hasMarker(f) == occurrences(f, NODE_MODULES) # {}

(* the text after the first / the last dependency-directory marker *)
afterFirstMarker(f) ==
  substring(f, MinOf(occurrences(f, NODE_MODULES)) + Len(NODE_MODULES))

afterLastMarker(f) ==
  substring(f, MaxOf(occurrences(f, NODE_MODULES)) + Len(NODE_MODULES))

underDir(p, dir) == startsWith(p, dir \o <<"/">>)

DotSlash == <<".", "/">>

DotDotSlash == <<".", ".", "/">>

(* the directory of the call's containing file once relocated into genDir *)
relocatedDir == dirname(rewriteGenDirPath(call.containingFile))

(* the path the returned specifier denotes from that directory *)
denoted == join(relocatedDir, call.result)

ChildConfig ==
  basePath = abs(<<Proj, Src>>) /\ genDir = abs(<<Proj, Src, Gen>>)

SiblingConfig ==
  basePath = abs(<<Proj, Src>>) /\ genDir = abs(<<Proj, Gen>>)

-----------------------------------------------------------------------------
(* C1: once resolveFileToImport(F, C) ran while F was not on disk, F is in   *)
(* the assumed-existing set and stays there through every later step, so    *)
(* context.fileExists(F) answers true from then on; the call itself leaves   *)
(* the disk alone, so the host's own existence check for F is still false.   *)
C1_HintPersists ==
  [][ \A F \in ImportedFiles \cup DiskPaths :
        /\ (/\ call'.op = "resolveFileToImport"
            /\ call'.importedFile = F
            /\ ~hostFileExists(F))
           => (F \in assumedExists' /\ fileExists(F)' /\ ~hostFileExists(F)')
        /\ F \in assumedExists => (F \in assumedExists' /\ fileExists(F)') ]_vars

(* a later call is answered while a hinted file is still not on disk *)
C1_Witness ==
  /\ call.op = "loadResource"
  /\ AppFactoryTs \in assumedExists
  /\ ~hostFileExists(AppFactoryTs)
  /\ fileExists(AppFactoryTs)

-----------------------------------------------------------------------------
(* C2 as stated: whenever the imported path contains the marker, the result  *)
(* does not begin with "." and is the text that follows a marker.            *)
C2_DependencyImportsBare ==
  (isResolve /\ hasMarker(call.importedFile)) =>
     /\ ~startsWith(call.result, <<".">>)
     /\ \E i \in occurrences(call.importedFile, NODE_MODULES) :
          call.result =
            substring(dropExtension(call.importedFile), i + Len(NODE_MODULES))

(* C2 amended: for an imported path that contains the marker, is not a       *)
(* generated artifact and has text after its first marker, the result is     *)
(* exactly that text (extension dropped); it begins with "." only when that  *)
(* text does.                                                                *)
C2_OrdinaryDependencyImportsBare ==
  (/\ isResolve
   /\ hasMarker(call.importedFile)
   /\ ~IS_GENERATED(dropExtension(call.importedFile))
   /\ afterFirstMarker(dropExtension(call.importedFile)) # Empty) =>
     /\ call.result = afterFirstMarker(dropExtension(call.importedFile))
     /\ call.importedFile \in {RxjsObservable, RxjsObservableDts}
          => call.result = <<"rxjs", "/", "Observable">>
     /\ startsWith(call.result, <<".">>)
          => startsWith(afterFirstMarker(call.importedFile), <<".">>)

C2_Witness ==
  /\ isResolve
  /\ call.importedFile = RxjsObservableDts
  /\ call.containingFile = GenAppFactory
  /\ call.result = <<"rxjs", "/", "Observable">>

-----------------------------------------------------------------------------
(* C3 as stated: for every generated imported file, wherever it lives, the   *)
(* returned specifier denotes a path under genDir.                           *)
C3_GeneratedUnderGenDir ==
  (isResolve /\ IS_GENERATED(dropExtension(call.importedFile))) =>
     underDir(denoted, genDir)

(* C3 amended: the same for the generated imported files that live in a      *)
(* dependency directory or under basePath.                                   *)
C3_GeneratedInProjectUnderGenDir ==
  (/\ isResolve
   /\ IS_GENERATED(dropExtension(call.importedFile))
   /\ \/ hasMarker(call.importedFile)
      \/ underDir(call.importedFile, basePath)) =>
     underDir(denoted, genDir)

C3_Witness ==
  /\ isResolve
  /\ SiblingConfig
  /\ call.importedFile = AppCssShimTs
  /\ call.containingFile = LibIndexFactoryTs
  /\ denoted = abs(<<Proj, Gen, App, <<"app", ".", "component", ".", "css", ".", "shim">>>>)

-----------------------------------------------------------------------------
-----------------------------------------------------------------------------
(* an ordinary (non-declaration) source path that is neither in the program  *)
(* nor on disk                                                               *)
ordinaryAndAbsent(p) ==
  ~DTS(p) /\ p \notin DOMAIN program /\ ~hostFileExists(p)

NotInProgram == Throw("Source file not present in program.")

(* C5 as stated: getMetadataFor on an ordinary source path that is absent    *)
(* from the program and from disk raises "Source file ... not present in     *)
(* program.", also once the path is in the assumed-existing set.             *)
C5_HardNotFound ==
  (isGetMetadata /\ ordinaryAndAbsent(call.filePath)) =>
     call.result = NotInProgram

(* C5 amended: on such a path getMetadataFor returns undefined without an    *)
(* error while the path is not in the assumed-existing set, and fails with   *)
(* the read error of readFile once it is; the "not present in program"       *)
(* error is raised in neither case.                                          *)
C5_AbsentSourceOutcome ==
  (isGetMetadata /\ ordinaryAndAbsent(call.filePath)) =>
     /\ call.filePath \notin assumedExists => call.result = Return(Undefined)
     /\ call.filePath \in assumedExists => call.result = Throw("ENOENT")
     /\ call.result # NotInProgram

C5_Witness ==
  /\ isGetMetadata
  /\ ordinaryAndAbsent(call.filePath)
  /\ call.filePath \in assumedExists
  /\ call.result.kind = "throw"

-----------------------------------------------------------------------------
(* C6: a getMetadataFor(p) issued while context.fileExists(p) is false       *)
(* returns undefined, raises nothing, reads no file and leaves the metadata  *)
(* cache and the assumed-existing set as they were, for declaration and      *)
(* ordinary paths alike.                                                     *)
C6_SoftNotFound ==
  [][ \A p \in DiskPaths :
        (/\ call'.op = "getMetadataFor"
         /\ call'.filePath = p
         /\ ~fileExists(p))
        => /\ call'.result = Return(Undefined)
           /\ call'.reads = {}
           /\ resolverCache' = resolverCache
           /\ assumedExists' = assumedExists ]_vars

C6_Witness ==
  /\ isGetMetadata
  /\ call.filePath = ExtraTs
  /\ ~fileExists(ExtraTs)
  /\ call.result = Return(Undefined)
  /\ call.reads = {}

-----------------------------------------------------------------------------
-----------------------------------------------------------------------------
(* C8: once getMetadataFor(p) has loaded or synthesized metadata for p, the  *)
(* value is stored under p in the path-keyed cache (from which later calls   *)
(* are answered).                                                            *)
C8_Memoized ==
  (isGetMetadata /\ call.result.kind = "return" /\ call.result.value # Undefined)
    => /\ call.filePath \in DOMAIN resolverCache
       /\ resolverCache[call.filePath] = call.result.value

-----------------------------------------------------------------------------
nested(f) == Cardinality(occurrences(f, NODE_MODULES)) > 1

(* C9 as stated: for an imported path with more than one marker the module   *)
(* id is the text after the LAST marker, for the bare specifier of an        *)
(* ordinary file and for the genDir/node_modules/<id> target of a generated  *)
(* one.                                                                      *)
C9_LastMarker ==
  (isResolve /\ nested(call.importedFile)) =>
     LET f == dropExtension(call.importedFile)
     IN  IF IS_GENERATED(f)
           THEN denoted = genDir \o NODE_MODULES \o afterLastMarker(f)
           ELSE call.result = afterLastMarker(f)

(* C9 amended: the module id is the text after the FIRST marker.             *)
C9_FirstMarker ==
  (isResolve /\ nested(call.importedFile)) =>
     LET f == dropExtension(call.importedFile)
     IN  /\ IF IS_GENERATED(f)
              THEN denoted = genDir \o NODE_MODULES \o afterFirstMarker(f)
              ELSE call.result = afterFirstMarker(f)
         /\ call.importedFile = NestedIndexDts
              => call.result = <<"a", "/", "node_modules", "/", "b", "/", "index">>

C9_Witness ==
  /\ isResolve
  /\ call.importedFile = NestedFactoryTs
  /\ ChildConfig
  /\ denoted = abs(<<Proj, Src, Gen, NM, <<"a">>, NM, <<"b">>,
                     <<"index", ".", "ngfactory">>>>)

-----------------------------------------------------------------------------
(* C10: outside the branch "ordinary source in a dependency directory" the   *)
(* returned specifier begins with "./" or "../", also when the first piece   *)
(* of the relative path is a name that starts with a dot.                    *)
C10_RelativeGrammar ==
  (/\ isResolve
   /\ ~(/\ ~IS_GENERATED(dropExtension(call.importedFile))
        /\ hasMarker(call.importedFile)
        /\ afterFirstMarker(dropExtension(call.importedFile)) # Empty)) =>
     \/ startsWith(call.result, DotSlash)
     \/ startsWith(call.result, DotDotSlash)
     \/ call.result = DotDot
====
